---- MODULE Spec2Model ----
(***************************************************************************)
(* Model of check_signatures.rs: the release signature check of the        *)
(* cincinnati graph-data tooling.                                          *)
(*                                                                         *)
(* run() filters the scraped releases against the set of found versions,   *)
(* starts one find_signatures_for_version future per tracked release in a  *)
(* FuturesOrdered, and reports the failing ones.  Each future probes       *)
(* signature-1 .. signature-9 under the digest's directory, one GET at a   *)
(* time, and stops at the first success.                                   *)
(*                                                                         *)
(* Strings are sequences of one-character strings, so that split and       *)
(* replace are computed, not assumed.  An Option or a pending future is a  *)
(* sequence of length at most one.                                         *)
(*                                                                         *)
(* Not modelled: ClientBuilder::build() failing (TLS or resolver           *)
(* initialisation), and Url::join failing or normalising a digest that     *)
(* holds path syntax; the payloads drawn here hold none.                   *)
(***************************************************************************)
EXTENDS Integers, Sequences, FiniteSets, TLC

VARIABLES
  releases,          \* run's argument: Vec<Release>
  found_versions,    \* run's argument: HashSet<Version>
  backend,           \* the signature store: directory -> index -> outcome of a GET
  pc,                \* where run is: "filter", "await", "done", "panicked"
  cursor,            \* position of the filter iterator in releases
  tracked_versions,  \* the filtered releases, as positions in releases
  tasks,             \* one find_signatures_for_version future per tracked release
  queued_outputs,    \* FuturesOrdered: outputs completed ahead of their turn
  outputs,           \* FuturesOrdered: outputs yielded so far, the collected Vec
  completion,        \* history: the indices of the futures in the order they returned
  run_result,        \* what run returned, once it has
  previous           \* history: how an earlier run on the same inputs ended

vars == <<releases, found_versions, backend, pc, cursor, tracked_versions,
          tasks, queued_outputs, outputs, completion, run_result, previous>>

----------------------------------------------------------------------------
(* Program constants and bounds                                            *)

MAX_SIGNATURES == 10

\* longest release list drawn
MaxReleases == 2

\* longest payload drawn where every payload over a small alphabet is
MaxPayloadLen == 4

----------------------------------------------------------------------------
(* str::split, str::replace                                                *)

\* position of the first c in s, 0 when there is none
FirstIndex(s, c) ==
  IF \E i \in 1..Len(s) : s[i] = c
  THEN CHOOSE i \in 1..Len(s) : s[i] = c /\ \A j \in 1..(i - 1) : s[j] # c
  ELSE 0

\* position of the last c in s, 0 when there is none
LastIndex(s, c) ==
  IF \E i \in 1..Len(s) : s[i] = c
  THEN CHOOSE i \in 1..Len(s) : s[i] = c /\ \A j \in (i + 1)..Len(s) : s[j] # c
  ELSE 0

\* s.split(c).next(): always Some, the text before the first c (all of s
\* when there is no c, the empty string when s is empty)
SplitNext(s, c) ==
  LET k == FirstIndex(s, c)
  IN  <<IF k = 0 THEN s ELSE SubSeq(s, 1, k - 1)>>

\* s.split(c).last(): always Some, the text after the last c
SplitLast(s, c) ==
  LET k == LastIndex(s, c)
  IN  <<IF k = 0 THEN s ELSE SubSeq(s, k + 1, Len(s))>>

\* s.replace(a, b) for one-character a and b
Replace(s, a, b) == [i \in 1..Len(s) |-> IF s[i] = a THEN b ELSE s[i]]

\* s.split(c) in full, used by the version parser
RECURSIVE Split(_, _)
Split(s, c) ==
  LET k == FirstIndex(s, c)
  IN  IF k = 0 THEN <<s>>
      ELSE <<SubSeq(s, 1, k - 1)>> \o Split(SubSeq(s, k + 1, Len(s)), c)

----------------------------------------------------------------------------
(* semver::Version::from_str, as far as the version strings drawn here go: *)
(* MAJOR.MINOR.PATCH[-PRE][+BUILD], numeric fields without leading zeros,  *)
(* dot-separated non-empty identifiers of [0-9A-Za-z-] after '-' and '+'.  *)

Digits == {"0", "1", "2", "3", "4", "5", "6", "7", "8", "9"}

Letters ==
  {"a", "b", "c", "d", "e", "f", "g", "h", "i", "j", "k", "l", "m",
   "n", "o", "p", "q", "r", "s", "t", "u", "v", "w", "x", "y", "z",
   "A", "B", "C", "D", "E", "F", "G", "H", "I", "J", "K", "L", "M",
   "N", "O", "P", "Q", "R", "S", "T", "U", "V", "W", "X", "Y", "Z"}

DigitValue(d) ==
  CASE d = "0" -> 0 [] d = "1" -> 1 [] d = "2" -> 2 [] d = "3" -> 3
    [] d = "4" -> 4 [] d = "5" -> 5 [] d = "6" -> 6 [] d = "7" -> 7
    [] d = "8" -> 8 [] d = "9" -> 9

IsNumeric(s) ==
  /\ Len(s) > 0
  /\ \A i \in 1..Len(s) : s[i] \in Digits
  /\ Len(s) > 1 => s[1] # "0"

RECURSIVE NumericValue(_)
NumericValue(s) ==
  IF s = <<>> THEN 0
  ELSE 10 * NumericValue(SubSeq(s, 1, Len(s) - 1)) + DigitValue(s[Len(s)])

IsIdentifiers(s) ==
  LET ids == Split(s, ".")
  IN  \A k \in 1..Len(ids) :
        /\ Len(ids[k]) > 0
        /\ \A i \in 1..Len(ids[k]) : ids[k][i] \in Digits \cup Letters \cup {"-"}

\* Ok(version) is <<version>>, Err(_) is <<>>
Version_from_str(s) ==
  LET plus   == FirstIndex(s, "+")
      main   == IF plus = 0 THEN s ELSE SubSeq(s, 1, plus - 1)
      build  == IF plus = 0 THEN <<>> ELSE SubSeq(s, plus + 1, Len(s))
      dash   == FirstIndex(main, "-")
      core   == IF dash = 0 THEN main ELSE SubSeq(main, 1, dash - 1)
      pre    == IF dash = 0 THEN <<>> ELSE SubSeq(main, dash + 1, Len(main))
      fields == Split(core, ".")
  IN  IF /\ Len(fields) = 3
         /\ \A k \in 1..3 : IsNumeric(fields[k])
         /\ dash > 0 => IsIdentifiers(pre)
         /\ plus > 0 => IsIdentifiers(build)
      THEN <<[major |-> NumericValue(fields[1]),
              minor |-> NumericValue(fields[2]),
              patch |-> NumericValue(fields[3]),
              pre   |-> pre,
              build |-> build]>>
      ELSE <<>>

----------------------------------------------------------------------------
(* cincinnati::Release and the results of the fallible functions           *)

Concrete(version, payload) ==
  [variant |-> "Concrete", version |-> version, payload |-> payload]

Abstract(version) == [variant |-> "Abstract", version |-> version]

\* Fallible<T>
Ok(v) == [ok |-> TRUE, val |-> v]
Err(e) == [ok |-> FALSE, err |-> e]

Unit == "()"

\* the anyhow errors the file builds
NotConcreteRelease == [kind |-> "not a concrete release"]
MalformedPayload(payload) == [kind |-> "could not parse payload", payload |-> payload]
ProbeFailure(how, url) == [kind |-> how, url |-> url]
DiscoveryExhausted(version, payload, errors) ==
  [kind |-> "Failed to find signatures", version |-> version,
   payload |-> payload, errors |-> errors]
BatchFailure(results) == [kind |-> "Signature check errors", results |-> results]

\* payload_from_release giving the other variants an empty payload
payload_from_release_or_default(release) ==
  IF release.variant = "Concrete"
  THEN Ok(release.payload)
  ELSE Ok(<<>>)

payload_from_release(release) ==
  IF release.variant = "Concrete"
  THEN Ok(release.payload)
  ELSE Err(NotConcreteRelease)

\* the digest taken after the first '@' instead of the last
DigestOf_after_first(payload) ==
  LET k == FirstIndex(payload, "@")
  IN  <<IF k = 0 THEN payload ELSE SubSeq(payload, k + 1, Len(payload))>>

\* the digest of a payload: payload.split("@").last(), an Option
DigestOf(payload) == SplitLast(payload, "@")

\* the URL fetch_url builds: BASE_URL / sha with ':' as '=' / signature-i
SignatureUrl(sha, i) == [dir |-> Replace(sha, ":", "="), signature |-> i]

\* what fetch_url returns for the response to its GET: "ok" is a success
\* status, "status" a non-success status, "transport" a failed send
FetchResult(url, response) ==
  CASE response = "transport" -> Err(ProbeFailure("transport", url))
    [] response = "ok"        -> Ok(Unit)
    [] response = "status"    -> Err(ProbeFailure("status", url))

\* is_release_in_versions without the membership test: every release whose
\* version parses is kept
is_release_in_versions_unfiltered(versions, release) ==
  LET stripped_version == SplitNext(release.version, "+")[1]
      version == Version_from_str(stripped_version)
  IN  IF version = <<>>
      THEN [panicked |-> TRUE, val |-> FALSE]
      ELSE [panicked |-> FALSE, val |-> TRUE]

\* is_release_in_versions treating a version that does not parse as untracked
is_release_in_versions_skip_unparsable(versions, release) ==
  LET stripped_version == SplitNext(release.version, "+")[1]
      version == Version_from_str(stripped_version)
  IN  IF version = <<>>
      THEN [panicked |-> FALSE, val |-> FALSE]
      ELSE [panicked |-> FALSE, val |-> version[1] \in versions]

\* is_release_in_versions stripping from the last '+' instead of the first
is_release_in_versions_strip_last(versions, release) ==
  LET plus == LastIndex(release.version, "+")
      stripped_version ==
        IF plus = 0 THEN release.version ELSE SubSeq(release.version, 1, plus - 1)
      version == Version_from_str(stripped_version)
  IN  IF version = <<>>
      THEN [panicked |-> TRUE, val |-> FALSE]
      ELSE [panicked |-> FALSE, val |-> version[1] \in versions]

\* is_release_in_versions: panicked is the unwrap of a failed parse
is_release_in_versions(versions, release) ==
  LET stripped_version == SplitNext(release.version, "+")[1]
      version == Version_from_str(stripped_version)
  IN  IF version = <<>>
      THEN [panicked |-> TRUE, val |-> FALSE]
      ELSE [panicked |-> FALSE, val |-> version[1] \in versions]

----------------------------------------------------------------------------
(* The inputs drawn                                                        *)

V_4_1_0 == <<"4", ".", "1", ".", "0">>
V_4_2_0 == <<"4", ".", "2", ".", "0">>
P_a == <<"r", "/", "o", "@", "s", ":", "a">>
P_b == <<"r", "/", "o", "@", "s", ":", "b">>

\* a concrete release, the same version with an architecture suffix and
\* another digest, a release without payload, a concrete release with an
\* empty payload, and two versions that are no semantic versions, one on a
\* release without payload and one on a concrete release
ReleaseUniverse ==
  { Concrete(V_4_1_0, P_a),
    Concrete(V_4_1_0 \o <<"+", "x">>, P_b),
    Abstract(V_4_2_0),
    Concrete(V_4_2_0, <<>>),
    Abstract(<<"4", ".", "1">>),
    Concrete(<<"v">> \o V_4_1_0, P_a) }

VersionUniverse == {Version_from_str(V_4_1_0)[1], Version_from_str(V_4_2_0)[1]}

\* the directories the releases of a list can ask for
Directories(rs) ==
  { SignatureUrl(DigestOf(rs[k].payload)[1], 1).dir :
      k \in {j \in 1..Len(rs) : rs[j].variant = "Concrete"} }

\* the indices the store answers for: one past the last the code may ask
StoreIndices == 1..(MAX_SIGNATURES + 1)

Profile(present, unreachable) ==
  [i \in StoreIndices |->
     IF i \in unreachable THEN "transport"
     ELSE IF i \in present THEN "ok" ELSE "status"]

\* what a directory of the store may hold: signature-1; signatures 3 and 5
\* behind a failed send at 2; nothing in the range probed, with failed
\* sends at the odd indices, and signature-10 past it
Profiles ==
  { Profile({1}, {}),
    Profile({3, 5}, {2}),
    Profile({MAX_SIGNATURES}, {1, 3, 5, 7, 9}) }

\* the response of the store to a GET; what it does not hold is not found
Respond(url) ==
  IF url.dir \in DOMAIN backend /\ url.signature \in DOMAIN backend[url.dir]
  THEN backend[url.dir][url.signature]
  ELSE "status"

----------------------------------------------------------------------------
(* find_signatures_for_version, one future                                 *)

\* the Range with an inclusive end
Attempts_inclusive == [start |-> 1, end |-> MAX_SIGNATURES + 1]

\* the Range of lines 60-63
Attempts == [start |-> 1, end |-> MAX_SIGNATURES]

\* Range::next
RangeNext(r) ==
  IF r.start < r.end
  THEN [item |-> <<r.start>>, range |-> [r EXCEPT !.start = @ + 1]]
  ELSE [item |-> <<>>, range |-> r]

\* a future not yet polled
NewTask(k) ==
  [release  |-> k,          \* the position in releases of its &Release
   state    |-> "new",      \* "new", "awaiting" a response, "done"
   attempts |-> Attempts,
   errors   |-> <<>>,
   inflight |-> {},         \* the GETs sent and not answered
   probed   |-> <<>>,       \* history: the indices of the GETs sent, in order
   ret      |-> <<>>]       \* the value returned, once it has

Return(task, value) == [task EXCEPT !.state = "done", !.ret = <<value>>]

\* the loop sending the GET of the next index along with the one it awaits
ProbeLoop_prefetch(task, release, payload, digest) ==
  LET n == RangeNext(task.attempts)
  IN  IF n.item # <<>>
      THEN [task EXCEPT !.state = "awaiting",
                        !.attempts = n.range,
                        !.inflight = @ \cup {SignatureUrl(digest, n.item[1]),
                                             SignatureUrl(digest, n.item[1] + 1)},
                        !.probed = Append(Append(@, n.item[1]), n.item[1] + 1)]
      ELSE Return(task, Err(DiscoveryExhausted(release.version, payload, task.errors)))

\* the loop of lines 64-78 from its head to the next suspension or return
ProbeLoop(task, release, payload, digest) ==
  LET n == RangeNext(task.attempts)
  IN  IF n.item # <<>>
      THEN [task EXCEPT !.state = "awaiting",
                        !.attempts = n.range,
                        !.inflight = @ \cup {SignatureUrl(digest, n.item[1])},
                        !.probed = Append(@, n.item[1])]
      ELSE Return(task, Err(DiscoveryExhausted(release.version, payload, task.errors)))

\* the match without the return on success: the loop goes on
MatchFetch_no_return(task, fetched) ==
  IF fetched.ok
  THEN task
  ELSE [task EXCEPT !.errors = Append(@, fetched.err)]

\* the match keeping the last error only
MatchFetch_last_error(task, fetched) ==
  IF fetched.ok
  THEN Return(task, Ok(Unit))
  ELSE [task EXCEPT !.errors = <<fetched.err>>]

\* the match asking once more for an index that failed for the first time
MatchFetch_retry_once(task, fetched) ==
  IF fetched.ok
  THEN Return(task, Ok(Unit))
  ELSE LET seen == \E j \in 1..Len(task.errors) : task.errors[j] = fetched.err
       IN  [task EXCEPT !.errors = Append(@, fetched.err),
                        !.attempts = IF seen THEN @
                                     ELSE [@ EXCEPT !.start = @ - 1]]

\* the match of lines 66-69 on what fetch_url returned
MatchFetch(task, fetched) ==
  IF fetched.ok
  THEN Return(task, Ok(Unit))
  ELSE [task EXCEPT !.errors = Append(@, fetched.err)]

\* the first poll: lines 53-58, then the loop
StartDiscovery(task, release) ==
  LET payload == payload_from_release(release)
  IN  IF ~payload.ok THEN Return(task, Err(payload.err))
      ELSE LET digest == DigestOf(payload.val)
           IN  IF digest = <<>>
               THEN Return(task, Err(MalformedPayload(payload.val)))
               ELSE ProbeLoop(task, release, payload.val, digest[1])

\* the poll that finds the response to the GET of url
ResumeDiscovery(task, release, url, response) ==
  LET payload == payload_from_release(release).val
      digest  == DigestOf(payload)[1]
      matched == MatchFetch([task EXCEPT !.inflight = @ \ {url}],
                            FetchResult(url, response))
  IN  IF matched.state = "done" THEN matched
      ELSE ProbeLoop(matched, release, payload, digest)

----------------------------------------------------------------------------
(* FuturesOrdered and run                                                  *)

\* the stream of a FuturesUnordered: an output is yielded when it is ready
YieldInOrder_as_completed(queued, yielded) ==
  IF queued = {} THEN [queued |-> queued, yielded |-> yielded]
  ELSE LET q == CHOOSE x \in queued : TRUE
       IN  [queued |-> queued \ {q}, yielded |-> Append(yielded, q.data)]

\* FuturesOrdered::poll_next: an output is yielded when its index is the next
\* outgoing one, and waits in queued_outputs until then
RECURSIVE YieldInOrder(_, _)
YieldInOrder(queued, yielded) ==
  IF \E q \in queued : q.index = Len(yielded) + 1
  THEN LET q == CHOOSE x \in queued : x.index = Len(yielded) + 1
       IN  YieldInOrder(queued \ {q}, Append(yielded, q.data))
  ELSE [queued |-> queued, yielded |-> yielded]

\* the stream after the future at index t was polled and left as task
Polled(t, task) ==
  IF task.state = "done"
  THEN YieldInOrder(queued_outputs \cup {[index |-> t, data |-> task.ret[1]]}, outputs)
  ELSE [queued |-> queued_outputs, yielded |-> outputs]

\* the history of returns after the future at index t was polled
Completed(t, task) ==
  IF task.state = "done" THEN Append(completion, t) ELSE completion

\* a collect that ends at the first error yielded, as try_collect does
Collected_or_first_error(yielded, n) ==
  \/ Len(yielded) = n
  \/ \E j \in 1..Len(yielded) : ~yielded[j].ok

\* collect::<Vec<_>>() of the stream is ready when every future was yielded
Collected(yielded, n) == Len(yielded) = n

\* the filter with its test inverted
KeepErrors_inverted(collected) == SelectSeq(collected, LAMBDA e : e.ok)

\* lines 119-121: keep errors only
KeepErrors(collected) == SelectSeq(collected, LAMBDA e : ~e.ok)

\* lines 122-126
BatchResult(results) ==
  IF results = <<>> THEN Ok(Unit) ELSE Err(BatchFailure(results))

Init ==
  /\ releases \in UNION {[1..n -> ReleaseUniverse] : n \in 0..MaxReleases}
  /\ found_versions \in SUBSET VersionUniverse
  /\ backend \in [Directories(releases) -> Profiles]
  /\ pc = "filter"
  /\ cursor = 1
  /\ tracked_versions = <<>>
  /\ tasks = <<>>
  /\ queued_outputs = {}
  /\ outputs = <<>>
  /\ completion = <<>>
  /\ run_result = <<>>
  /\ previous = <<>>

\* the filter dropping a release equal to one it has kept
FilterStep_dedup ==
  /\ pc = "filter"
  /\ cursor <= Len(releases)
  /\ LET kept == is_release_in_versions(found_versions, releases[cursor])
         seen == \E t \in 1..Len(tracked_versions) :
                   releases[tracked_versions[t]] = releases[cursor]
     IN  IF kept.panicked
         THEN /\ pc' = "panicked"
              /\ UNCHANGED <<cursor, tracked_versions>>
         ELSE /\ pc' = pc
              /\ cursor' = cursor + 1
              /\ tracked_versions' =
                   IF kept.val /\ ~seen THEN Append(tracked_versions, cursor)
                   ELSE tracked_versions
  /\ UNCHANGED <<previous, releases, found_versions, backend, tasks, queued_outputs,
                 outputs, completion, run_result>>

\* the futures built and awaited as soon as one release has been filtered
Launch_eager ==
  /\ pc = "filter"
  /\ cursor > 1
  /\ pc' = "await"
  /\ tasks' = [t \in 1..Len(tracked_versions) |-> NewTask(tracked_versions[t])]
  /\ UNCHANGED <<previous, releases, found_versions, backend, cursor, tracked_versions,
                 queued_outputs, outputs, completion, run_result>>

\* lines 106-109, one release: the filter closure on the next release
FilterStep ==
  /\ pc = "filter"
  /\ cursor <= Len(releases)
  /\ LET kept == is_release_in_versions(found_versions, releases[cursor])
     IN  IF kept.panicked
         THEN /\ pc' = "panicked"
              /\ UNCHANGED <<cursor, tracked_versions>>
         ELSE /\ pc' = pc
              /\ cursor' = cursor + 1
              /\ tracked_versions' =
                   IF kept.val THEN Append(tracked_versions, cursor)
                   ELSE tracked_versions
  /\ UNCHANGED <<previous, releases, found_versions, backend, tasks, queued_outputs,
                 outputs, completion, run_result>>

\* lines 109-117: the filter is exhausted, the futures are built and awaited
Launch ==
  /\ pc = "filter"
  /\ cursor > Len(releases)
  /\ pc' = "await"
  /\ tasks' = [t \in 1..Len(tracked_versions) |-> NewTask(tracked_versions[t])]
  /\ UNCHANGED <<previous, releases, found_versions, backend, cursor, tracked_versions,
                 queued_outputs, outputs, completion, run_result>>

\* a future polled for the first time only while no other has a GET unanswered
FirstPoll_one_at_a_time(t) ==
  /\ pc = "await"
  /\ tasks[t].state = "new"
  /\ \A u \in DOMAIN tasks : tasks[u].state # "awaiting"
  /\ ~Collected(outputs, Len(tasks))
  /\ LET task   == StartDiscovery(tasks[t], releases[tasks[t].release])
         stream == Polled(t, task)
     IN  /\ tasks' = [tasks EXCEPT ![t] = task]
         /\ queued_outputs' = stream.queued
         /\ outputs' = stream.yielded
         /\ completion' = Completed(t, task)
  /\ UNCHANGED <<previous, releases, found_versions, backend, pc, cursor,
                 tracked_versions, run_result>>

\* the first poll of the future at index t
FirstPoll(t) ==
  /\ pc = "await"
  /\ tasks[t].state = "new"
  /\ ~Collected(outputs, Len(tasks))
  /\ LET task   == StartDiscovery(tasks[t], releases[tasks[t].release])
         stream == Polled(t, task)
     IN  /\ tasks' = [tasks EXCEPT ![t] = task]
         /\ queued_outputs' = stream.queued
         /\ outputs' = stream.yielded
         /\ completion' = Completed(t, task)
  /\ UNCHANGED <<previous, releases, found_versions, backend, pc, cursor,
                 tracked_versions, run_result>>

\* the store answers a GET of the future at index t, which is polled again
ProbeReturns(t) ==
  /\ pc = "await"
  /\ tasks[t].state = "awaiting"
  /\ ~Collected(outputs, Len(tasks))
  /\ \E url \in tasks[t].inflight :
       LET task   == ResumeDiscovery(tasks[t], releases[tasks[t].release],
                                     url, Respond(url))
           stream == Polled(t, task)
       IN  /\ tasks' = [tasks EXCEPT ![t] = task]
           /\ queued_outputs' = stream.queued
           /\ outputs' = stream.yielded
           /\ completion' = Completed(t, task)
  /\ UNCHANGED <<previous, releases, found_versions, backend, pc, cursor,
                 tracked_versions, run_result>>

\* lines 117-126: the collect is ready and run returns
Finish ==
  /\ pc = "await"
  /\ Collected(outputs, Len(tasks))
  /\ pc' = "done"
  /\ run_result' = <<BatchResult(KeepErrors(outputs))>>
  /\ UNCHANGED <<previous, releases, found_versions, backend, cursor, tracked_versions,
                 tasks, queued_outputs, outputs, completion>>

Next ==
  \/ FilterStep
  \/ Launch
  \/ \E t \in DOMAIN tasks : FirstPoll(t)
  \/ \E t \in DOMAIN tasks : ProbeReturns(t)
  \/ Finish

Spec == Init /\ [][Next]_vars

----------------------------------------------------------------------------
(* run on one concrete release of a tracked version, for every payload     *)

\* the state run starts from, its arguments and the store apart
RunEntry ==
  /\ pc = "filter"
  /\ cursor = 1
  /\ tracked_versions = <<>>
  /\ tasks = <<>>
  /\ queued_outputs = {}
  /\ outputs = <<>>
  /\ completion = <<>>
  /\ run_result = <<>>
  /\ previous = <<>>

\* every string of at most n characters of alphabet
Strings(alphabet, n) == UNION {[1..k -> alphabet] : k \in 0..n}

\* the payloads drawn: all the short ones with separators in every place,
\* and one of the usual shape
PayloadUniverse == Strings({"r", "@", ":", "a"}, MaxPayloadLen) \cup {P_a}

InitPayloads ==
  /\ releases \in {<<Concrete(V_4_1_0, payload)>> : payload \in PayloadUniverse}
  /\ found_versions = {Version_from_str(V_4_1_0)[1]}
  /\ backend \in [Directories(releases) -> Profiles]
  /\ RunEntry

SpecPayloads == InitPayloads /\ [][Next]_vars

----------------------------------------------------------------------------
(* run on concrete releases whose versions carry build metadata            *)

\* the versions drawn: with and without '+', with two '+', with a part
\* before the '+' that is no semantic version
VersionStrings ==
  {V_4_1_0,
   V_4_1_0 \o <<"+", "x">>,
   V_4_1_0 \o <<"+", "y", "+", "x">>,
   V_4_1_0 \o <<"+", "a", "m", "d", "6", "4">>,
   V_4_2_0 \o <<"+", "x">>,
   <<"4", ".", "1", "+", "x">>}

InitVersions ==
  /\ releases \in UNION {[1..n -> {Concrete(v, P_a) : v \in VersionStrings}] :
                           n \in 0..MaxReleases}
  /\ found_versions \in SUBSET VersionUniverse
  /\ backend \in [Directories(releases) -> {Profile({1}, {}), Profile({3, 5}, {2})}]
  /\ RunEntry

SpecVersions == InitVersions /\ [][Next]_vars

----------------------------------------------------------------------------
(* run on releases whose discoveries take long and short                   *)

\* the releases drawn: two concrete ones of a tracked version and one whose
\* version does not parse
ProbingUniverse ==
  {Concrete(V_4_1_0, P_a),
   Concrete(V_4_1_0 \o <<"+", "x">>, P_b),
   Abstract(<<"4", ".", "1">>)}

\* their store: no signature below MAX_SIGNATURES for the first payload,
\* with indices that do not answer, and signature-3 for the second
InitProbing ==
  /\ releases \in UNION {[1..n -> ProbingUniverse] : n \in 0..MaxReleases}
  /\ found_versions \in {{}, {Version_from_str(V_4_1_0)[1]}}
  /\ backend = [dir \in Directories(releases) |->
                  IF dir = SignatureUrl(DigestOf(P_a)[1], 1).dir
                  THEN Profile({MAX_SIGNATURES}, {1, 3, 5, 7, 9})
                  ELSE Profile({3, 5}, {2})]
  /\ RunEntry

SpecProbing == InitProbing /\ [][Next]_vars

----------------------------------------------------------------------------
(* run with every GET answered in the end and every future polled when it  *)
(* can go on                                                               *)

\* ENABLED <<FilterStep>>_vars written out: the step changes pc or cursor
\* whenever its guard holds
FilterStepEnabled == pc = "filter" /\ cursor <= Len(releases)

\* WF_vars(FilterStep) with its ENABLED written out: the filter closure is
\* called on the next release as long as there is one
FilterFair == []<>(~FilterStepEnabled) \/ []<><<FilterStep>>_vars

\* run goes on from the filter to the futures and from the collected
\* results to its return, and the executor polls a future not yet polled
RunFair ==
  WF_vars(Launch \/ Finish \/ \E t \in DOMAIN tasks : FirstPoll(t))

\* every GET sent is answered in the end
ProbesReturn ==
  \A t \in 1..MaxReleases : WF_vars(t \in DOMAIN tasks /\ ProbeReturns(t))

SpecFair == SpecProbing /\ FilterFair /\ RunFair /\ ProbesReturn

----------------------------------------------------------------------------
(* run called again on the same releases, versions and store               *)

\* how the run that ended left things; of the order its futures returned in,
\* whether it was the order of submission
Ended ==
  [pc               |-> pc,
   run_result       |-> run_result,
   tracked_versions |-> tracked_versions,
   returns          |-> [t \in DOMAIN tasks |-> tasks[t].ret],
   in_order         |-> completion = [t \in 1..Len(completion) |-> t]]

\* the caller calls run a second time: lines 93-104 again
Rerun ==
  /\ pc \in {"done", "panicked"}
  /\ previous = <<>>
  /\ previous' = <<Ended>>
  /\ pc' = "filter"
  /\ cursor' = 1
  /\ tracked_versions' = <<>>
  /\ tasks' = <<>>
  /\ queued_outputs' = {}
  /\ outputs' = <<>>
  /\ completion' = <<>>
  /\ run_result' = <<>>
  /\ UNCHANGED <<releases, found_versions, backend>>

NextTwice ==
  \/ Next
  \/ Rerun

SpecTwice == Init /\ [][NextTwice]_vars

----------------------------------------------------------------------------
(* What the claims speak of                                                *)

IsConcrete(release) == release.variant = "Concrete"

\* the version with everything from the first '+' stripped is a semantic
\* version of the tracked set
IsTracked(release) ==
  LET stripped == SplitNext(release.version, "+")[1]
  IN  /\ Version_from_str(stripped) # <<>>
      /\ Version_from_str(stripped)[1] \in found_versions

\* a GET was issued for the release at position k of the input
Probed(k) == \E t \in DOMAIN tasks : tasks[t].release = k /\ tasks[t].probed # <<>>

\* the futures whose release carries a payload
ConcreteTasks == {t \in DOMAIN tasks : IsConcrete(releases[tasks[t].release])}

\* the directory of the store for the release of future t: the payload
\* after its last '@', with '=' for ':'
DirOf(t) ==
  LET payload == releases[tasks[t].release].payload
      k == LastIndex(payload, "@")
      digest == IF k = 0 THEN payload ELSE SubSeq(payload, k + 1, Len(payload))
  IN  [j \in 1..Len(digest) |-> IF digest[j] = ":" THEN "=" ELSE digest[j]]

\* the store's answers for the signatures of the release of future t
AnswersOf(t) ==
  LET dir == DirOf(t)
  IN  [i \in StoreIndices |-> Respond([dir |-> dir, signature |-> i])]

Returned(t) == tasks[t].state = "done"

----------------------------------------------------------------------------
(* C1                                                                      *)

\* C1 as stated: when the run has ended, the releases probed are exactly
\* the concrete releases of a tracked version.
C1_Stated ==
  pc \in {"done", "panicked"} =>
    \A k \in 1..Len(releases) :
      Probed(k) <=> (IsConcrete(releases[k]) /\ IsTracked(releases[k]))

\* C1, amended: a release is probed only if it is concrete and its stripped
\* version is tracked; and when run returns a Batch Result, every concrete
\* release of a tracked version has been probed.
C1_ProbedIffConcreteTracked ==
  /\ \A k \in 1..Len(releases) :
       Probed(k) => (IsConcrete(releases[k]) /\ IsTracked(releases[k]))
  /\ pc = "done" =>
       \A k \in 1..Len(releases) :
         (IsConcrete(releases[k]) /\ IsTracked(releases[k])) => Probed(k)

\* a returned run that probed one release and left a concrete one of an
\* untracked version alone
C1_Witness ==
  /\ pc = "done"
  /\ \E k \in 1..Len(releases) : Probed(k)
  /\ \E k \in 1..Len(releases) :
       IsConcrete(releases[k]) /\ ~IsTracked(releases[k]) /\ ~Probed(k)

----------------------------------------------------------------------------
(* C2                                                                      *)

\* C2: within one discovery the indices probed are 1, 2, 3, ... in this
\* order, each once, and none follows an index whose probe succeeds: every
\* probe before the last one sent was answered by a failure, and a discovery
\* that returned where some index of 1..9 succeeds probed exactly the
\* indices up to the first such index.
C2_SequentialUntilFirstSuccess ==
  \A t \in ConcreteTasks :
    LET probed == tasks[t].probed
        answer == AnswersOf(t)
    IN  /\ \A j \in 1..Len(probed) : probed[j] = j
        /\ \A j \in 1..(Len(probed) - 1) : answer[probed[j]] # "ok"
        /\ (Returned(t) /\ \E i \in 1..9 : answer[i] = "ok") =>
             /\ answer[Len(probed)] = "ok"
             /\ tasks[t].inflight = {}

\* a discovery that returned after probing exactly 1, 2, 3 where the store
\* also holds signature-5
C2_Witness ==
  \E t \in ConcreteTasks :
    /\ Returned(t)
    /\ tasks[t].probed = <<1, 2, 3>>
    /\ AnswersOf(t)[3] = "ok"
    /\ AnswersOf(t)[5] = "ok"

----------------------------------------------------------------------------
(* C3                                                                      *)

\* C3: a discovery of a concrete release returns success if and only if
\* the store answers some index of 1..9 with success; no index from 10 on
\* is ever probed.
C3_SuccessIffSomeIndexBelowMax ==
  \A t \in ConcreteTasks :
    /\ \A j \in 1..Len(tasks[t].probed) : tasks[t].probed[j] \in 1..9
    /\ \A url \in tasks[t].inflight : url.signature \in 1..9
    /\ Returned(t) =>
         (tasks[t].ret[1].ok <=> \E i \in 1..9 : AnswersOf(t)[i] = "ok")

\* a discovery that returned failure although the store holds signature-10
C3_Witness ==
  \E t \in ConcreteTasks :
    /\ Returned(t)
    /\ ~tasks[t].ret[1].ok
    /\ AnswersOf(t)[10] = "ok"

----------------------------------------------------------------------------
(* C4                                                                      *)

\* the errors fetch_url gives for the signatures of future t that fail
ProbeErrorsOf(t) ==
  LET dir == DirOf(t)
      answer == AnswersOf(t)
  IN  [i \in 1..9 |-> [kind |-> answer[i], url |-> [dir |-> dir, signature |-> i]]]

\* C4: every failed probe is recorded and the next index is tried: the
\* errors accumulated are those of the probes answered so far, in index
\* order, and a discovery for which all of 1..9 fail returns an error
\* carrying exactly these 9 errors.
C4_AllFailuresAccumulated ==
  \A t \in ConcreteTasks :
    LET answered == Len(tasks[t].probed) - Cardinality(tasks[t].inflight)
        answer   == AnswersOf(t)
        error    == ProbeErrorsOf(t)
        failed   == {i \in 1..answered : answer[i] # "ok"}
    IN  /\ Len(tasks[t].errors) = Cardinality(failed)
        /\ \A j \in 1..Len(tasks[t].errors) :
             j \in failed /\ tasks[t].errors[j] = error[j]
        /\ (Returned(t) /\ \A i \in 1..9 : answer[i] # "ok") =>
             /\ ~tasks[t].ret[1].ok
             /\ tasks[t].ret[1].err.kind = "Failed to find signatures"
             /\ tasks[t].ret[1].err.errors = error
             /\ tasks[t].ret[1].err.version = releases[tasks[t].release].version
             /\ tasks[t].ret[1].err.payload = releases[tasks[t].release].payload

\* a discovery that failed with 9 errors, failed sends and non-success
\* statuses among them
C4_Witness ==
  \E t \in ConcreteTasks :
    /\ Returned(t)
    /\ ~tasks[t].ret[1].ok
    /\ Len(tasks[t].ret[1].err.errors) = 9
    /\ \E j \in 1..9 : tasks[t].ret[1].err.errors[j].kind = "transport"
    /\ \E j \in 1..9 : tasks[t].ret[1].err.errors[j].kind = "status"

----------------------------------------------------------------------------
(* The Batch Result                                                        *)

DiscoveryOk(t) == Returned(t) /\ tasks[t].ret[1].ok

DiscoveryFailed(t) == Returned(t) /\ ~tasks[t].ret[1].ok

RunReturned == pc = "done" /\ run_result # <<>>

RunFailed == RunReturned /\ ~run_result[1].ok

\* the failure list of a failed run
Failures == run_result[1].err.results

CountIn(seq, e) == Cardinality({j \in 1..Len(seq) : seq[j] = e})

\* the last index the discovery of future t probed
LastProbed(t) == tasks[t].probed[Len(tasks[t].probed)]

----------------------------------------------------------------------------
(* C5                                                                      *)

\* C5: when run returns, the discoveries are those of the releases that
\* passed the filter, one each; run returns success if and only if all of
\* them returned success; otherwise the failure list holds the failing
\* Discovery Results, each as many times as it was returned, and nothing
\* else.
C5_BatchResultIsTheFailures ==
  RunReturned =>
    /\ \A k \in 1..Len(releases) :
         Cardinality({t \in DOMAIN tasks : tasks[t].release = k})
           = (IF IsTracked(releases[k]) THEN 1 ELSE 0)
    /\ run_result[1].ok <=> \A t \in DOMAIN tasks : DiscoveryOk(t)
    /\ ~run_result[1].ok =>
         /\ \A j \in 1..Len(Failures) :
              \E t \in DOMAIN tasks :
                DiscoveryFailed(t) /\ tasks[t].ret[1] = Failures[j]
         /\ \A t \in DOMAIN tasks :
              DiscoveryFailed(t) =>
                CountIn(Failures, tasks[t].ret[1])
                  = Cardinality({u \in DOMAIN tasks :
                                   DiscoveryFailed(u) /\ tasks[u].ret = tasks[t].ret})

\* a failed run with a successful discovery beside the failing one
C5_Witness ==
  /\ RunFailed
  /\ \E t \in DOMAIN tasks : DiscoveryOk(t)
  /\ Len(Failures) = 1

----------------------------------------------------------------------------
(* C6                                                                      *)

\* C6: the failures of the Batch Result stand in the order of their
\* releases in the input list, whatever the order the discoveries returned
\* in.
C6_FailuresInSubmissionOrder ==
  RunFailed =>
    /\ \A t, u \in DOMAIN tasks : t < u => tasks[t].release < tasks[u].release
    /\ Failures = SelectSeq([t \in 1..Len(tasks) |-> tasks[t].ret[1]],
                            LAMBDA e : ~e.ok)

\* two different failures reported first, second although the second
\* discovery returned first
C6_Witness ==
  /\ RunFailed
  /\ Len(Failures) = 2
  /\ Failures[1] # Failures[2]
  /\ completion = <<2, 1>>

----------------------------------------------------------------------------
(* C7                                                                      *)

\* the discovery of future t reached its own end: the first successful
\* index, the exhaustion of 1..9, or an error of the digest extraction
Terminal(t) ==
  /\ Returned(t)
  /\ tasks[t].inflight = {}
  /\ \/ /\ tasks[t].ret[1].ok
        /\ tasks[t].probed # <<>>
        /\ AnswersOf(t)[LastProbed(t)] = "ok"
     \/ /\ ~tasks[t].ret[1].ok
        /\ tasks[t].ret[1].err.kind = "Failed to find signatures"
        /\ Len(tasks[t].probed) = 9
        /\ LET answer == AnswersOf(t) IN \A i \in 1..9 : answer[i] # "ok"
     \/ /\ ~tasks[t].ret[1].ok
        /\ tasks[t].ret[1].err.kind
             \in {"not a concrete release", "could not parse payload"}
        /\ tasks[t].probed = <<>>

\* C7: when run returns, every discovery has reached its own end, and every
\* failing one is in the failure list, the ones after an earlier failure
\* included.
C7_NoShortCircuit ==
  RunReturned =>
    \A t \in DOMAIN tasks :
      /\ Terminal(t)
      /\ DiscoveryFailed(t) =>
           /\ RunFailed
           /\ \E j \in 1..Len(Failures) : Failures[j] = tasks[t].ret[1]

\* the first discovery failed first, the second went through all of 1..9
\* after that, and both are reported
C7_Witness ==
  /\ RunFailed
  /\ Len(tasks) = 2
  /\ completion = <<1, 2>>
  /\ DiscoveryFailed(1)
  /\ DiscoveryFailed(2)
  /\ Len(tasks[2].probed) = 9
  /\ Len(Failures) = 2

----------------------------------------------------------------------------
(* C8                                                                      *)

\* C8: a release that is not concrete is never probed: its discovery
\* returns the not-a-concrete-release error at its first poll, with no GET
\* sent; when its version is tracked and run returns, this error is in the
\* failure list and the concrete releases beside it were checked to their
\* end.
C8_NonConcreteNeverProbed ==
  /\ \A k \in 1..Len(releases) : ~IsConcrete(releases[k]) => ~Probed(k)
  /\ \A t \in DOMAIN tasks \ ConcreteTasks :
       /\ tasks[t].probed = <<>>
       /\ tasks[t].inflight = {}
       /\ tasks[t].state \in {"new", "done"}
       /\ Returned(t) => tasks[t].ret[1] = Err(NotConcreteRelease)
  /\ RunReturned =>
       \A k \in 1..Len(releases) :
         (~IsConcrete(releases[k]) /\ IsTracked(releases[k])) =>
           /\ RunFailed
           /\ \E j \in 1..Len(Failures) : Failures[j] = Err(NotConcreteRelease)
           /\ \A t \in ConcreteTasks : Terminal(t)

\* a run that reports a release without payload and probed the concrete
\* release after it through all of 1..9
C8_Witness ==
  /\ RunFailed
  /\ Len(tasks) = 2
  /\ ~IsConcrete(releases[tasks[1].release])
  /\ Failures[1] = Err(NotConcreteRelease)
  /\ IsConcrete(releases[tasks[2].release])
  /\ Len(tasks[2].probed) = 9

----------------------------------------------------------------------------
(* C9                                                                      *)

\* C9 as stated: the discovery of a concrete release with an empty payload
\* returns the could-not-parse-payload error and sends no GET; the digest
\* extraction of a non-empty payload does not fail.
C9_Stated ==
  \A t \in ConcreteTasks :
    tasks[t].state # "new" =>
      IF releases[tasks[t].release].payload = <<>>
      THEN /\ tasks[t].probed = <<>>
           /\ tasks[t].ret = <<Err(MalformedPayload(<<>>))>>
      ELSE ~(DiscoveryFailed(t)
             /\ tasks[t].ret[1].err.kind = "could not parse payload")

----------------------------------------------------------------------------
(* C10                                                                     *)

\* the part of the version before the first '+' is no semantic version
Unparsable(release) ==
  Version_from_str(SplitNext(release.version, "+")[1]) = <<>>

\* C10: with a release of an unparsable version in the input, whatever its
\* variant, run never gets past that release in the filter: it returns no
\* Batch Result and starts no discovery; it ends panicked there.
C10_UnparsableVersionAborts ==
  \A k \in 1..Len(releases) :
    Unparsable(releases[k]) =>
      /\ run_result = <<>>
      /\ pc \in {"filter", "panicked"}
      /\ tasks = <<>>
      /\ cursor <= k
      /\ pc = "panicked" => \E j \in 1..k : cursor = j /\ Unparsable(releases[j])

\* a run aborted by a release without payload of an unparsable version,
\* with a concrete release of a tracked version before it
C10_Witness ==
  /\ pc = "panicked"
  /\ cursor = 2
  /\ ~IsConcrete(releases[2])
  /\ IsConcrete(releases[1])
  /\ IsTracked(releases[1])
  /\ tracked_versions = <<1>>

----------------------------------------------------------------------------
(* C11                                                                     *)

\* C11: a second run on the same releases, tracked versions and store ends
\* as the first did, whatever the order its discoveries return in: the same
\* releases checked, the same result of every discovery, the same Batch
\* Result with the same failures in the same order.
C11_SecondRunEndsAsTheFirst ==
  (previous # <<>> /\ pc \in {"done", "panicked"}) =>
    /\ pc = previous[1].pc
    /\ tracked_versions = previous[1].tracked_versions
    /\ [t \in DOMAIN tasks |-> tasks[t].ret] = previous[1].returns
    /\ run_result = previous[1].run_result

\* a second run reporting two different failures whose discoveries returned
\* second, first, after a first run where they returned first, second
C11_Witness ==
  /\ previous # <<>>
  /\ RunFailed
  /\ Len(Failures) = 2
  /\ Failures[1] # Failures[2]
  /\ previous[1].in_order
  /\ completion = <<2, 1>>

----------------------------------------------------------------------------
(* C12                                                                     *)

\* d is what follows the last '@' of payload, all of payload when it holds
\* no '@'
IsDigestOf(d, payload) ==
  \E k \in 0..Len(payload) :
    /\ k = 0 \/ payload[k] = "@"
    /\ \A j \in (k + 1)..Len(payload) : payload[j] # "@"
    /\ d = SubSeq(payload, k + 1, Len(payload))

\* segment is d with '=' for every ':'
IsSegmentOf(segment, d) ==
  /\ Len(segment) = Len(d)
  /\ \A j \in 1..Len(d) : segment[j] = (IF d[j] = ":" THEN "=" ELSE d[j])

Suffixes(s) == {SubSeq(s, k + 1, Len(s)) : k \in 0..Len(s)}

\* the URLs the discovery of future t has sent a GET to and not had a
\* success from
UrlsOf(t) ==
  tasks[t].inflight \cup {tasks[t].errors[j].url : j \in 1..Len(tasks[t].errors)}

----------------------------------------------------------------------------
(* C13                                                                     *)

\* the part of version before its first '+', all of it when it holds none
BeforeFirstPlus(version) ==
  CHOOSE prefix \in {SubSeq(version, 1, n) : n \in 0..Len(version)} :
    /\ \A j \in 1..Len(prefix) : prefix[j] # "+"
    /\ Len(prefix) = Len(version) \/ version[Len(prefix) + 1] = "+"

\* the releases the filter has decided on
Decided == 1..(IF pc = "panicked" THEN cursor ELSE cursor - 1)

\* what the filter did with the release at position k
Decision(k) ==
  IF pc = "panicked" /\ k = cursor THEN "panicked"
  ELSE IF \E t \in 1..Len(tracked_versions) : tracked_versions[t] = k THEN "kept"
  ELSE "dropped"

\* C13: what the filter does with a release is fixed by the part of its
\* version before the first '+' and the tracked set: kept when that part is
\* a semantic version of the set, dropped when it is one outside the set;
\* two releases with the same part get the same decision, and 4.1.0+amd64
\* is kept exactly when 4.1.0 is in the set.
C13_DecisionFromPartBeforeFirstPlus ==
  /\ \A k \in Decided :
       LET version == releases[k].version
           parsed  == Version_from_str(BeforeFirstPlus(version))
       IN  /\ Decision(k) =
                IF parsed = <<>> THEN "panicked"
                ELSE IF parsed[1] \in found_versions THEN "kept"
                ELSE "dropped"
           /\ version = V_4_1_0 \o <<"+", "a", "m", "d", "6", "4">> =>
                (Decision(k) = "kept" <=> Version_from_str(V_4_1_0)[1] \in found_versions)
  /\ \A j, k \in Decided :
       BeforeFirstPlus(releases[j].version) = BeforeFirstPlus(releases[k].version)
         => Decision(j) = Decision(k)

\* 4.1.0+amd64 and 4.1.0+y+x were both kept and their discoveries ran
C13_Witness ==
  /\ pc = "done"
  /\ Len(releases) = 2
  /\ releases[1].version = V_4_1_0 \o <<"+", "a", "m", "d", "6", "4">>
  /\ releases[2].version = V_4_1_0 \o <<"+", "y", "+", "x">>
  /\ tracked_versions = <<1, 2>>
  /\ \A t \in DOMAIN tasks : tasks[t].probed # <<>>

----------------------------------------------------------------------------
(* C14                                                                     *)

\* C14: a discovery has at most one GET unanswered, the one of the index it
\* probed last, and every index it probed before that one has its failure
\* recorded: the next index is asked for only after the one before failed.
C14_OneProbeInFlight ==
  \A t \in DOMAIN tasks :
    LET task == tasks[t]
    IN  /\ Cardinality(task.inflight) <= 1
        /\ \A url \in task.inflight : url.signature = LastProbed(t)
        /\ \A j \in 1..(Len(task.probed) - 1) :
             /\ j <= Len(task.errors)
             /\ task.errors[j].url.signature = task.probed[j]
        /\ task.state = "awaiting" <=> task.inflight # {}

\* the third GET of a discovery is unanswered, after two recorded failures
C14_Witness ==
  \E t \in DOMAIN tasks :
    /\ Len(tasks[t].errors) = 2
    /\ \E url \in tasks[t].inflight : url.signature = 3

----------------------------------------------------------------------------
(* C15                                                                     *)

\* C15: no discovery waits for the GET of another: while run awaits the
\* futures, each one not yet polled can be polled and each one with a GET
\* unanswered can take its answer, whatever the others are doing.
C15_NoDiscoveryWaitsForAnother ==
  pc = "await" =>
    \A t \in DOMAIN tasks :
      /\ tasks[t].state = "new" => ENABLED FirstPoll(t)
      /\ tasks[t].state = "awaiting" => ENABLED ProbeReturns(t)

\* every discovery of a run with as many as the input allows has a GET
\* unanswered at once
C15_Witness ==
  /\ pc = "await"
  /\ Len(tasks) = Len(releases)
  /\ Len(tasks) >= 2
  /\ \A t \in DOMAIN tasks : tasks[t].inflight # {}

----------------------------------------------------------------------------
(* C17                                                                     *)

\* C17: no future exists, so no GET is sent, before the filter has decided
\* on every release of the input; a run that panicked in the filter has
\* built no future and sent no GET, wherever the release it panicked on is.
C17_FilterBeforeProbing ==
  /\ tasks # <<>> => cursor = Len(releases) + 1
  /\ pc \in {"filter", "panicked"} => tasks = <<>>
  /\ \A t \in DOMAIN tasks : tasks[t].probed # <<>> => pc \in {"await", "done"}
  /\ pc = "panicked" => cursor \in 1..Len(releases) /\ Unparsable(releases[cursor])

\* the run panicked on its first release, with a concrete tracked release
\* behind it that was never looked at
C17_Witness ==
  /\ pc = "panicked"
  /\ cursor = 1
  /\ Len(releases) = 2
  /\ IsConcrete(releases[2])
  /\ IsTracked(releases[2])
  /\ tasks = <<>>

----------------------------------------------------------------------------
(* C18                                                                     *)

\* the positions of the input that hold the release at position k
Occurrences(k) == {j \in 1..Len(releases) : releases[j] = releases[k]}

\* the futures that returned a failure
FailedTasks == {t \in DOMAIN tasks : DiscoveryFailed(t)}

\* C18: the futures follow the input order and there is one for each
\* occurrence of a tracked release, none for the others; equal releases get
\* equal results, and the failure list of a failed run holds the failures
\* of the futures one by one, in the order of their input positions.
C18_OrderAndMultiplicity ==
  pc \in {"await", "done"} =>
    /\ \A t, u \in DOMAIN tasks : t < u => tasks[t].release < tasks[u].release
    /\ \A k \in 1..Len(releases) :
         Cardinality({t \in DOMAIN tasks : tasks[t].release \in Occurrences(k)})
           = IF IsTracked(releases[k]) THEN Cardinality(Occurrences(k)) ELSE 0
    /\ RunReturned =>
         \A t, u \in DOMAIN tasks :
           releases[tasks[t].release] = releases[tasks[u].release]
             => tasks[t].ret = tasks[u].ret
    /\ RunFailed =>
         /\ Len(Failures) = Cardinality(FailedTasks)
         /\ \A t \in FailedTasks :
              Failures[Cardinality({u \in FailedTasks : u <= t})] = tasks[t].ret[1]

\* the same concrete release twice in the input: two discoveries probed the
\* same nine URLs and the failure list holds the same failure twice
C18_Witness ==
  /\ RunFailed
  /\ Len(releases) = 2
  /\ releases[1] = releases[2]
  /\ Len(tasks) = 2
  /\ Len(tasks[1].probed) = 9
  /\ Len(tasks[2].probed) = 9
  /\ Failures = <<tasks[1].ret[1], tasks[2].ret[1]>>
  /\ Failures[1] = Failures[2]

----------------------------------------------------------------------------
(* C16                                                                     *)

\* the indices probed by future t, each once
ProbedOnce(t) ==
  \A i, j \in 1..Len(tasks[t].probed) :
    i # j => tasks[t].probed[i] # tasks[t].probed[j]

\* C16 as stated: a run that has ended has a Batch Result, and no discovery
\* has sent more than 9 GETs or asked twice for an index.
C16_Stated ==
  /\ pc \notin {"filter", "await"} => RunReturned
  /\ \A t \in DOMAIN tasks : Len(tasks[t].probed) <= 9 /\ ProbedOnce(t)

\* C16: with every GET answered in the end, run ends: it returns a Batch
\* Result, or it panicked in the filter on a release whose version does not
\* parse; after the Batch Result nothing more happens; no discovery sends
\* more than 9 GETs or asks twice for an index.
C16_EndsWithinNineProbes ==
  /\ <>(RunReturned \/ pc = "panicked")
  /\ [](RunReturned => ~ENABLED Next)
  /\ [](pc = "panicked" => Unparsable(releases[cursor]) /\ tasks = <<>>)
  /\ [](\A t \in DOMAIN tasks : Len(tasks[t].probed) <= 9 /\ ProbedOnce(t))

\* a run returned its Batch Result after one discovery went through all
\* nine indices, some of them unreachable, and another succeeded
C16_Witness ==
  /\ RunFailed
  /\ Len(tasks) = 2
  /\ DiscoveryFailed(1)
  /\ Len(tasks[1].probed) = 9
  /\ \E j \in 1..9 : tasks[1].errors[j].kind = "transport"
  /\ DiscoveryOk(2)
  /\ Len(Failures) = 1

====
